---- MODULE Spec2Model ----
(***************************************************************************)
(* Model of the journio socket server: the handshake middleware, the       *)
(* connection handler and its three event handlers (join_conversation,     *)
(* send_message, message_read), the two store helpers of lib/conversation  *)
(* (getOrCreateConversation, addMessage) and the rooms of socket.io.       *)
(*                                                                         *)
(* Every handler is an async function: it runs on one event loop and is    *)
(* suspended at each `await` of a store call.  One action of the model is  *)
(* one store call taking effect, or one continuation that runs between two *)
(* awaits; handlers of different requests interleave at these points.      *)
(***************************************************************************)
EXTENDS Integers, Sequences, FiniteSets, Bags, TLC

\* ------------------------------------------------------------------ bounds
MaxReqs  == 4   \* requests the server receives over a run
MaxTasks == 2   \* handlers in flight at the same time
MaxConvs == 2   \* conversations the store comes to hold
MaxMsgs  == 2   \* messages the store comes to hold
MaxDocs  == 3   \* documents the store comes to hold in all
MaxIds   == 2   \* length of a messageIds array

\* two clients, each with its own socket and the token of its own user
Users == {"u1", "u2"}
Conns == {"s1", "s2"}
Owner(c) == IF c = "s1" THEN "u1" ELSE "u2"
NoUser == "none"            \* socket.userId === undefined
NoConn == "none"

\* identifiers are ObjectIds, which the store generates: a client can name
\* a document only once it exists.  _id is the position in the collection.
NoId  == 0                  \* an absent identifier (undefined, "")
BadId == -1                 \* a string that is no ObjectId
GhostConv == MaxConvs + 1   \* a well-formed id of no conversation

\* mongoose.isValidObjectId
IsValidObjectId(id) == id >= 1

\* A query casts the string a client sent to an ObjectId, and more than one
\* string casts to the same ObjectId (the hexadecimal digits in upper case,
\* for one): Alias(id) is such a second spelling of the identifier id, and
\* Canon(s) is what _id.toString() gives for the ObjectId that s casts to.
Alias(id) == id + GhostConv
Canon(id) == IF id > GhostConv THEN id - GhostConv ELSE id

\* ------------------------------------------------------------------ state
VARIABLES
    conn,      \* per socket: handshake status and socket.userId
    rooms,     \* per socket: the rooms it is a member of
    convs,     \* the Conversation collection, in insertion order (_id = index)
    msgs,      \* the Message collection, in insertion order (_id = index)
    tasks,     \* the handlers in flight with their locals, a bag
    emitted,   \* the events the last step emitted, in order
    nreq       \* requests received so far

vars == <<conn, rooms, convs, msgs, tasks, emitted, nreq>>

\* ------------------------------------------------------------------ rooms
UserRoom(u) == [kind |-> "user", user |-> u, conv |-> NoId, sock |-> NoConn]
ConvRoom(id) == [kind |-> "conversation", user |-> NoUser, conv |-> id, sock |-> NoConn]
Sock(c) == [kind |-> "socket", user |-> NoUser, conv |-> NoId, sock |-> c]

\* the sockets an emit to channel ch reaches: socket.emit reaches its socket,
\* io.to(room).emit the members of the room; a closed socket is sent nothing
Members(ch) ==
    IF ch.kind = "socket"
    THEN {c \in Conns : c = ch.sock /\ conn[c].status = "connected"}
    ELSE {c \in Conns : ch \in rooms[c] /\ conn[c].status = "connected"}

\* an event as it is emitted: the channel, the sockets it reaches and the
\* payload (an error event carries its reason; conv is the conversationId
\* of the request it answers)
Event(name, ch, t, m) ==
    [ev |-> name, chan |-> ch, rcpts |-> Members(ch), ok |-> TRUE, err |-> "",
     conv |-> t.conversationId, msg |-> m, by |-> t.userId, ids |-> t.messageIds]

Failure(name, ch, t, why) ==
    [ev |-> name, chan |-> ch, rcpts |-> Members(ch), ok |-> FALSE, err |-> why,
     conv |-> t.conversationId, msg |-> NoId, by |-> NoUser, ids |-> <<>>]

\* ------------------------------------------------------------------ tasks
\* the locals of a handler: its payload, the userId its closure captured,
\* where it is suspended (pc) and what its store calls returned
NoTask == [op |-> "none", pc |-> "none", sock |-> NoConn, userId |-> NoUser,
           conversationId |-> NoId, otherUserId |-> NoUser, content |-> "",
           hasAck |-> FALSE, messageIds |-> <<>>,
           conv |-> NoId, other |-> NoUser, message |-> NoId]

Running == BagToSet(tasks)
Spawn(t) == tasks (+) SetToBag({t})
Finish(t) == tasks (-) SetToBag({t})
Step(t, u) == (tasks (-) SetToBag({t})) (+) SetToBag({u})
HasRoom == BagCardinality(tasks) < MaxTasks

\* ------------------------------------------------------------------ store
\* participants.map(String).includes(String(userId))
Includes(parts, u) == \E i \in 1..Len(parts) : parts[i] = u

\* the query with $in in the place of $all: either user is enough
MatchAny(userId1, userId2) ==
    {i \in 1..Len(convs) : Includes(convs[i].participants, userId1)
                           \/ Includes(convs[i].participants, userId2)}

\* Conversation.findOne({participants: {$all: [userId1, userId2]}}): the first
\* document, in insertion order, whose participants hold both; NoId if none
MatchAll(userId1, userId2) ==
    {i \in 1..Len(convs) : Includes(convs[i].participants, userId1)
                           /\ Includes(convs[i].participants, userId2)}

FindOne(userId1, userId2) ==
    IF MatchAll(userId1, userId2) = {} THEN NoId
    ELSE CHOOSE i \in MatchAll(userId1, userId2) :
             \A j \in MatchAll(userId1, userId2) : i <= j

\* Conversation.findById(id): the document, or null (NoId)
FindById(id) == IF Canon(id) \in 1..Len(convs) THEN Canon(id) ELSE NoId

\* documents that exist or that handlers in flight are about to create
ConvsInSight ==
    Len(convs) + BagCardinality([t \in {r \in Running : r.op = "join" /\ r.pc = "create"}
                                   |-> tasks[t]])
MsgsInSight ==
    Len(msgs) + BagCardinality([t \in {r \in Running : r.op = "send" /\ r.pc = "create"}
                                  |-> tasks[t]])
DocsInSight == ConvsInSight + MsgsInSight

\* ------------------------------------------------------------------ Init
Init ==
    /\ conn = [c \in Conns |-> [status |-> "new", userId |-> NoUser]]
    /\ rooms = [c \in Conns |-> {}]
    /\ convs = <<>>
    /\ msgs = <<>>
    /\ tasks = EmptyBag
    /\ emitted = <<>>
    /\ nreq = 0

\* ------------------------------------------------------------------ handshake
\* the accessToken cookie of a handshake: absent, not verifiable, or a
\* verified payload whose _id is a user or is missing
Tokens(c) == [kind : {"absent", "invalid"}, id : {NoUser}]
             \cup [kind : {"valid"}, id : {Owner(c), NoUser}]

\* io.use: next() is called without an error
Verified(tok) == tok.kind = "valid"

\* the connection handler without its check of socket.userId
UserIdUnchecked(uid) == TRUE

\* io.on("connection"): if (!userId) { socket.disconnect(true); return; }
UserIdBound(uid) == uid # NoUser

Handshake(c, tok) ==
    /\ conn[c].status = "new"
    /\ IF ~Verified(tok)
       THEN /\ conn' = [conn EXCEPT ![c] = [status |-> "rejected", userId |-> NoUser]]
            /\ rooms' = rooms
       ELSE IF ~UserIdBound(tok.id)
       THEN /\ conn' = [conn EXCEPT ![c] = [status |-> "rejected", userId |-> NoUser]]
            /\ rooms' = rooms
       ELSE /\ conn' = [conn EXCEPT ![c] = [status |-> "connected", userId |-> tok.id]]
            /\ rooms' = [rooms EXCEPT ![c] = {UserRoom(tok.id)}]
    /\ emitted' = <<>>
    /\ UNCHANGED <<convs, msgs, tasks, nreq>>

\* a disconnect that cancels the handlers of the socket
DisconnectAborting(c) ==
    /\ conn[c].status = "connected"
    /\ conn' = [conn EXCEPT ![c].status = "closed"]
    /\ rooms' = [rooms EXCEPT ![c] = {}]
    /\ tasks' = [t \in {r \in Running : r.sock # c} |-> tasks[t]]
    /\ emitted' = <<>>
    /\ UNCHANGED <<convs, msgs, nreq>>

\* the client goes away: the socket leaves every room; handlers in flight go on
Disconnect(c) ==
    /\ conn[c].status = "connected"
    /\ conn' = [conn EXCEPT ![c].status = "closed"]
    /\ rooms' = [rooms EXCEPT ![c] = {}]
    /\ emitted' = <<>>
    /\ UNCHANGED <<convs, msgs, tasks, nreq>>

\* a socket whose handlers are registered (lines 58-199 ran for it)
Registered(c) == conn[c].status = "connected"

\* the socket c sends a request and the server receives it
Receives(c) == Registered(c) /\ nreq < MaxReqs /\ nreq' = nreq + 1

\* the store call the handler t awaits rejects and its catch block emits ev
Rejects(t, ev) ==
    /\ tasks' = Finish(t)
    /\ emitted' = ev
    /\ UNCHANGED <<conn, rooms, convs, msgs, nreq>>

\* ------------------------------------------------------------------ join_conversation
\* the conversation ids a client can put in a payload
KnownConvs == (1..Len(convs)) \cup {GhostConv, BadId}

JoinPayloads ==
    [conversationId : {NoId}, otherUserId : Users \cup {NoUser}]
    \cup [conversationId : KnownConvs, otherUserId : {NoUser}]

NewTask(opname, c) ==
    [NoTask EXCEPT !.op = opname, !.sock = c, !.userId = conn[c].userId]

JoinError(t, why) == <<Failure("join_error", Sock(t.sock), t, why)>>

\* the handler announcing a join it did not make
AnnounceOnly(t) ==
    /\ rooms' = rooms
    /\ emitted' = <<Event("joined_conversation", Sock(t.sock), t, NoId)>>

\* socket.join(room); socket.emit("joined_conversation", {conversationId})
JoinRoom(t) ==
    /\ rooms' = [rooms EXCEPT ![t.sock] =
                    IF Registered(t.sock) THEN @ \cup {ConvRoom(t.conversationId)} ELSE @]
    /\ emitted' = <<Event("joined_conversation", Sock(t.sock), t, NoId)>>

\* the membership check reduced to the existence of the conversation
IsFound(found, userId) == found # NoId

\* the membership check made against the whole collection instead of the
\* conversation that was found
IsListedSomewhere(found, userId) ==
    found # NoId /\ \E i \in 1..Len(convs) : Includes(convs[i].participants, userId)

\* lines 75-80: the conversation was found and lists the caller
IsParticipant(found, userId) ==
    found # NoId /\ Includes(convs[found].participants, userId)

\* A request that names no conversation, lines 62-70 and getOrCreateConversation
\* lines 9-11: the handler runs to its first await and the findOne takes effect.
\* Nothing the handler does before that is visible to another handler, so the
\* request is taken to arrive when its first query is served.
JoinStart(c, p) ==
    /\ Receives(c)
    /\ p.conversationId = NoId
    /\ LET t == [NewTask("join", c) EXCEPT !.otherUserId = p.otherUserId]
           found == FindOne(t.userId, t.otherUserId)
       IN IF p.otherUserId = NoUser
          THEN /\ emitted' = JoinError(t, "otherUserId required if no conversationId")
               /\ tasks' = tasks
          ELSE /\ HasRoom
               /\ found = NoId => ConvsInSight < MaxConvs /\ DocsInSight < MaxDocs
               /\ tasks' = Spawn([t EXCEPT !.conv = found,
                                   !.pc = IF found = NoId THEN "create" ELSE "joined"])
               /\ emitted' = <<>>
    /\ UNCHANGED <<conn, rooms, convs, msgs>>

\* getOrCreateConversation, lines 13-17: the create takes effect
Create(userId1, userId2) ==
    Append(convs, [participants |-> <<userId1, userId2>>, lastMessage |-> NoId])

JoinCreate(t) ==
    /\ t.op = "join" /\ t.pc = "create"
    /\ convs' = Create(t.userId, t.otherUserId)
    /\ tasks' = Step(t, [t EXCEPT !.conv = Len(convs) + 1, !.pc = "joined"])
    /\ emitted' = <<>>
    /\ UNCHANGED <<conn, rooms, msgs, nreq>>

\* lines 71, 87-88: getOrCreateConversation has returned conv
JoinResolved(t) ==
    /\ t.op = "join" /\ t.pc = "joined"
    /\ JoinRoom([t EXCEPT !.conversationId = t.conv])
    /\ tasks' = Finish(t)
    /\ UNCHANGED <<conn, convs, msgs, nreq>>

\* A request that names a conversation, lines 72-88.  What findById returns
\* cannot change while the handler is suspended (a named conversation exists,
\* conversations are never deleted, participants are never written), so the
\* query and the continuation that uses it are one step.
JoinById(c, p) ==
    /\ Receives(c)
    /\ p.conversationId # NoId
    /\ LET t == [NewTask("join", c) EXCEPT !.conversationId = p.conversationId]
       IN IF ~IsValidObjectId(p.conversationId)
          THEN /\ emitted' = JoinError(t, "Failed to join conversation")
               /\ rooms' = rooms
          ELSE IF IsParticipant(FindById(p.conversationId), t.userId)
          THEN JoinRoom(t)
          ELSE /\ emitted' = JoinError(t, "Not authorized to join conversation")
               /\ rooms' = rooms
    /\ UNCHANGED <<conn, convs, msgs, tasks>>

\* lines 89-92: the store call of a join handler rejects
JoinQueryFault(c, p) ==
    /\ Receives(c)
    /\ p.conversationId # NoId \/ p.otherUserId # NoUser
    /\ emitted' = JoinError([NewTask("join", c) EXCEPT
                                !.conversationId = p.conversationId,
                                !.otherUserId = p.otherUserId],
                            "Failed to join conversation")
    /\ UNCHANGED <<conn, rooms, convs, msgs, tasks>>

JoinFault(t) ==
    /\ t.op = "join" /\ t.pc = "create"
    /\ Rejects(t, JoinError(t, "Failed to join conversation"))

\* ------------------------------------------------------------------ send_message
Contents == {"", "hi"}

SendPayloads ==
    [conversationId : KnownConvs \cup {NoId}, content : Contents, hasAck : BOOLEAN]

\* if (ack) ack(res): the acknowledgment, when the client asked for one
AckOk(t) ==
    IF t.hasAck THEN <<Event("ack", Sock(t.sock), t, t.message)>> ELSE <<>>

\* a handler that fails without a word to the caller
NoAckError(t, why) == <<>>

AckError(t, why) ==
    IF t.hasAck THEN <<Failure("ack", Sock(t.sock), t, why)>> ELSE <<>>

\* the payload check without its test of content
MissingConversationId(p) == p.conversationId = NoId

\* line 105: if (!conversationId || !content)
InvalidPayload(p) == p.conversationId = NoId \/ p.content = ""

\* lines 119-121: the first participant that is not the caller
OtherOf(parts, userId) ==
    IF \E i \in 1..Len(parts) : parts[i] # userId
    THEN parts[CHOOSE i \in 1..Len(parts) :
                   parts[i] # userId /\ \A j \in 1..(i - 1) : parts[j] = userId]
    ELSE NoUser

\* lines 103-126: the payload check, findById and the membership checks.  As
\* in JoinById the query and the continuation that uses it are one step; the
\* handler is then suspended in addMessage, at Message.create.
SendStart(c, p) ==
    /\ Receives(c)
    /\ LET t == [NewTask("send", c) EXCEPT !.conversationId = p.conversationId,
                                           !.content = p.content,
                                           !.hasAck = p.hasAck]
           found == FindById(p.conversationId)
       IN IF InvalidPayload(p)
          THEN /\ emitted' = AckError(t, "Invalid payload")
               /\ tasks' = tasks
          ELSE IF ~IsValidObjectId(p.conversationId)
          THEN /\ emitted' = AckError(t, "CastError")
               /\ tasks' = tasks
          ELSE IF ~IsParticipant(found, t.userId)
          THEN /\ emitted' = AckError(t, "Not a participant")
               /\ tasks' = tasks
          ELSE IF OtherOf(convs[found].participants, t.userId) = NoUser
          THEN /\ emitted' = AckError(t, "No other participant")
               /\ tasks' = tasks
          ELSE /\ HasRoom
               /\ MsgsInSight < MaxMsgs /\ DocsInSight < MaxDocs
               /\ tasks' = Spawn([t EXCEPT !.conv = found, !.pc = "create",
                       !.other =OtherOf(convs[found].participants, t.userId)])
               /\ emitted' = <<>>
    /\ UNCHANGED <<conn, rooms, convs, msgs>>

\* addMessage, lines 28-33: Message.create takes effect (seen defaults to false)
NewMessage(conversationId, senderId, receiverId, content) ==
    [conversationId |-> conversationId, sender |-> senderId,
     receiver |-> receiverId, content |-> content, seen |-> FALSE]

SendCreate(t) ==
    /\ t.op = "send" /\ t.pc = "create"
    /\ msgs' = Append(msgs, NewMessage(t.conv, t.userId, t.other, t.content))
    /\ tasks' = Step(t, [t EXCEPT !.message = Len(msgs) + 1, !.pc = "update"])
    /\ emitted' = <<>>
    /\ UNCHANGED <<conn, rooms, convs, nreq>>

\* addMessage, lines 35-37: Conversation.findByIdAndUpdate takes effect
SetLastMessage(conversationId, messageId) ==
    [convs EXCEPT ![conversationId].lastMessage = messageId]

SendUpdate(t) ==
    /\ t.op = "send" /\ t.pc = "update"
    /\ convs' = SetLastMessage(t.conv, t.message)
    /\ tasks' = Step(t, [t EXCEPT !.pc = "emit"])
    /\ emitted' = <<>>
    /\ UNCHANGED <<conn, rooms, msgs, nreq>>

\* the handler acknowledging before it broadcasts
SendEventsAckFirst(t) ==
    AckOk(t)
    \o <<Event("receive_message", ConvRoom(t.conversationId), t, t.message),
         Event("new_message_notification", UserRoom(t.other), t, t.message)>>

\* lines 133-150: what the handler emits once addMessage has returned
SendEvents(t) ==
    <<Event("receive_message", ConvRoom(t.conversationId), t, t.message),
      Event("new_message_notification", UserRoom(t.other), t, t.message)>>
    \o AckOk(t)

SendEmit(t) ==
    /\ t.op = "send" /\ t.pc = "emit"
    /\ emitted' = SendEvents(t)
    /\ tasks' = Finish(t)
    /\ UNCHANGED <<conn, rooms, convs, msgs, nreq>>

\* lines 151-154: a store call of the handler rejects
SendQueryFault(c, p) ==
    /\ Receives(c)
    /\ ~InvalidPayload(p)
    /\ emitted' = AckError([NewTask("send", c) EXCEPT
                               !.conversationId = p.conversationId,
                               !.hasAck = p.hasAck],
                           "StoreFailure")
    /\ UNCHANGED <<conn, rooms, convs, msgs, tasks>>

\* a handler that broadcasts whether addMessage returned or threw
SendFaultBroadcasting(t) ==
    /\ t.op = "send" /\ t.pc \in {"create", "update"}
    /\ Rejects(t, SendEvents(t))

SendFault(t) ==
    /\ t.op = "send" /\ t.pc \in {"create", "update"}
    /\ Rejects(t, AckError(t, "StoreFailure"))

\* ------------------------------------------------------------------ message_read
\* the message ids a client can put in a payload, and the arrays of them
KnownMsgs == (1..Len(msgs)) \cup {BadId}

\* the arrays of at most n distinct elements of S, each in one order
RECURSIVE Arrays(_, _)
Arrays(S, n) ==
    IF n = 0 THEN {<<>>}
    ELSE Arrays(S, n - 1)
         \cup UNION {{Append(a, x) : x \in {y \in S : \A i \in 1..(n - 1) : a[i] > y}}
                        : a \in {b \in Arrays(S, n - 1) : Len(b) = n - 1}}

\* every array goes with the conversations of the store; with an id that names
\* none of them the handler returns before it looks at the array's elements
ReadPayloads ==
    [conversationId : 1..Len(convs), messageIds : Arrays(KnownMsgs, MaxIds)]
    \cup [conversationId : {GhostConv, BadId, NoId},
          messageIds : Arrays(KnownMsgs, 1)]

\* lines 179-181: messageIds.filter(isValidObjectId)
RECURSIVE ValidIds(_)
ValidIds(ids) ==
    IF ids = <<>> THEN <<>>
    ELSE IF IsValidObjectId(Head(ids)) THEN <<Head(ids)>> \o ValidIds(Tail(ids))
    ELSE ValidIds(Tail(ids))

\* line 185: the identifiers the handler hands to updateMany
UpdateIds(t) == t.messageIds

\* Message.updateMany({_id: {$in: ids}, conversationId}, {$set: {seen: true}})
\* rejects with a CastError when an element of ids is no ObjectId
Casts(ids) == \A i \in 1..Len(ids) : IsValidObjectId(ids[i])

\* an update that flips the flag instead of setting it
ToggleSeen(ids, conversationId) ==
    [i \in 1..Len(msgs) |->
        IF Includes(ids, i) /\ msgs[i].conversationId = Canon(conversationId)
        THEN [msgs[i] EXCEPT !.seen = ~@]
        ELSE msgs[i]]

\* an update that selects by _id alone
MarkSeenAnywhere(ids, conversationId) ==
    [i \in 1..Len(msgs) |->
        IF Includes(ids, i) THEN [msgs[i] EXCEPT !.seen = TRUE] ELSE msgs[i]]

MarkSeen(ids, conversationId) ==
    [i \in 1..Len(msgs) |->
        IF Includes(ids, i) /\ msgs[i].conversationId = Canon(conversationId)
        THEN [msgs[i] EXCEPT !.seen = TRUE]
        ELSE msgs[i]]

Seen(t) == <<Event("message_seen", ConvRoom(t.conversationId), t, NoId)>>

\* lines 162-183 and 190-194: the payload check, findById, the membership
\* check and the filter, one step as in JoinById; the handler is then
\* suspended at updateMany or, with no valid id, emits at once
ReadStart(c, p) ==
    /\ Receives(c)
    /\ LET t == [NewTask("read", c) EXCEPT !.conversationId = p.conversationId,
                                           !.messageIds = p.messageIds]
       IN IF p.conversationId = NoId \/ Len(p.messageIds) = 0
          THEN emitted' = <<>> /\ tasks' = tasks
          ELSE IF ~IsValidObjectId(p.conversationId)
          THEN emitted' = <<>> /\ tasks' = tasks
          ELSE IF ~IsParticipant(FindById(p.conversationId), t.userId)
          THEN emitted' = <<>> /\ tasks' = tasks
          ELSE IF Len(ValidIds(p.messageIds)) > 0
          THEN /\ HasRoom
               /\ tasks' = Spawn([t EXCEPT !.pc = "update"])
               /\ emitted' = <<>>
          ELSE emitted' = Seen(t) /\ tasks' = tasks
    /\ UNCHANGED <<conn, rooms, convs, msgs>>

\* lines 184-187: updateMany takes effect, or rejects the identifiers
ReadUpdate(t) ==
    /\ t.op = "read" /\ t.pc = "update"
    /\ IF Casts(UpdateIds(t))
       THEN /\ msgs' = MarkSeen(UpdateIds(t), t.conversationId)
            /\ tasks' = Step(t, [t EXCEPT !.pc = "emit"])
       ELSE /\ msgs' = msgs
            /\ tasks' = Finish(t)
    /\ emitted' = <<>>
    /\ UNCHANGED <<conn, rooms, convs, nreq>>

\* lines 190-194
ReadEmit(t) ==
    /\ t.op = "read" /\ t.pc = "emit"
    /\ emitted' = Seen(t)
    /\ tasks' = Finish(t)
    /\ UNCHANGED <<conn, rooms, convs, msgs, nreq>>

\* lines 195-197: a store call of the handler rejects; the error is logged
\* and nothing is sent
ReadQueryFault(c) ==
    /\ Receives(c)
    /\ \E p \in ReadPayloads : p.conversationId # NoId /\ Len(p.messageIds) > 0
    /\ emitted' = <<>>
    /\ UNCHANGED <<conn, rooms, convs, msgs, tasks>>

ReadFault(t) ==
    /\ t.op = "read" /\ t.pc = "update"
    /\ Rejects(t, <<>>)

\* ------------------------------------------------------------------ aliases
\* the second spellings of the identifiers of the conversations of the store
AliasConvs == {Alias(i) : i \in 1..Len(convs)}

\* the requests of a client that names a conversation by a second spelling
Aliased ==
    \/ \E c \in Conns, id \in AliasConvs :
          JoinById(c, [conversationId |-> id, otherUserId |-> NoUser])
    \/ \E c \in Conns, id \in AliasConvs, h \in BOOLEAN :
          SendStart(c, [conversationId |-> id, content |-> "hi", hasAck |-> h])
    \/ \E c \in Conns, id \in AliasConvs, ids \in Arrays(KnownMsgs, 1) :
          ReadStart(c, [conversationId |-> id, messageIds |-> ids])

\* ------------------------------------------------------------------ Next
\* the handlers with a store that answers every call
Handlers ==
    \/ \E c \in Conns : \E tok \in Tokens(c) : Handshake(c, tok)
    \/ \E c \in Conns : Disconnect(c)
    \/ \E c \in Conns, p \in JoinPayloads : JoinStart(c, p)
    \/ \E t \in Running : JoinCreate(t)
    \/ \E t \in Running : JoinResolved(t)
    \/ \E c \in Conns, p \in JoinPayloads : JoinById(c, p)
    \/ \E c \in Conns, p \in SendPayloads : SendStart(c, p)
    \/ \E t \in Running : SendCreate(t)
    \/ \E t \in Running : SendUpdate(t)
    \/ \E t \in Running : SendEmit(t)
    \/ \E c \in Conns, p \in ReadPayloads : ReadStart(c, p)
    \/ \E t \in Running : ReadUpdate(t)
    \/ \E t \in Running : ReadEmit(t)

\* a store call rejects (the store is remote; any call may)
Faults ==
    \/ \E c \in Conns, p \in JoinPayloads : JoinQueryFault(c, p)
    \/ \E t \in Running : JoinFault(t)
    \/ \E c \in Conns, p \in SendPayloads : SendQueryFault(c, p)
    \/ \E t \in Running : SendFault(t)
    \/ \E c \in Conns : ReadQueryFault(c)
    \/ \E t \in Running : ReadFault(t)

Next == Handlers \/ Faults

Spec == Init /\ [][Next]_vars

\* the same server with a store that never fails
SpecReliable == Init /\ [][Handlers]_vars

\* the same server when no two handlers overlap: a request is received only
\* once the handler of the one before has ended
SpecSeq == Init /\ [][Next /\ BagCardinality(tasks') <= 1]_vars

\* the runs one request shorter, where each request still meets every kind
\* of store and every handler in flight
SpecShort == Init /\ [][Next /\ nreq' < MaxReqs]_vars

\* the continuations of the send_message handlers in flight
SendSteps == \E t \in Running : SendCreate(t) \/ SendUpdate(t) \/ SendEmit(t)

\* the runs of SpecShort with a store that never fails and answers every call
\* of addMessage, the event loop running the continuation of every answer
SpecFair ==
    /\ Init
    /\ [][Handlers /\ nreq' < MaxReqs]_vars
    /\ WF_vars(SendSteps)

\* the runs of SpecShort with clients that also name conversations by a
\* second spelling of their identifier
SpecAlias == Init /\ [][(Next \/ Aliased) /\ nreq' < MaxReqs]_vars

\* ================================================================== claims
\* the users a conversation lists, as a set (the unordered pair)
PairOf(i) == {convs[i].participants[k] : k \in 1..Len(convs[i].participants)}

\* the conversations whose participant pair is {a, b}
ConvsOf(a, b) == {i \in 1..Len(convs) : PairOf(i) = {a, b}}

\* the messages persisted into conversation c, and the latest of them
MessagesOf(c) == {i \in 1..Len(msgs) : msgs[i].conversationId = c}
Latest(c) == CHOOSE i \in MessagesOf(c) : \A j \in MessagesOf(c) : j <= i

\* an addMessage call on conversation c is in progress
AddingTo(c) ==
    \E t \in Running : t.op = "send" /\ t.conv = c /\ t.pc \in {"create", "update"}

\* the events es are one error event of the given kind, sent to socket c
IsError(es, kind, c) ==
    /\ Len(es) = 1
    /\ es[1].ev = kind /\ ~es[1].ok /\ es[1].chan = Sock(c)

\* the events es are what a failed send_message owes its caller: the
\* acknowledgment {ok: false, error} when the request carried a callback
IsAckError(es, c, hasAck) == IF hasAck THEN IsError(es, "ack", c) ELSE es = <<>>

\* ------------------------------------------------------------------ C1
\* C1: in every reachable state, whatever the interleaving of join_conversation
\* requests, no two conversations of the store have the same unordered
\* participant pair.
C1_UniquePair ==
    \A i, j \in 1..Len(convs) : i # j => PairOf(i) # PairOf(j)

\* ------------------------------------------------------------------ C2
\* C2: for every conversation with a persisted message, whenever no addMessage
\* call on it is in progress, its lastMessage is the message persisted into it
\* most recently, for any interleaving of send_message requests (checked with
\* a store that never fails).
C2_LastMessageIsLatest ==
    \A c \in 1..Len(convs) :
        MessagesOf(c) # {} /\ ~AddingTo(c) => convs[c].lastMessage = Latest(c)

\* ------------------------------------------------------------------ C3
\* a socket whose handshake verification has not succeeded
Unverified(c) == conn[c].userId = NoUser

\* C3: a socket whose handshake verification does not succeed (token absent,
\* token invalid, no user id bound) is in no room, is reached by no event,
\* has no handler registered and none of its requests is in progress.
C3_UnverifiedIsOutside ==
    \A c \in Conns :
        Unverified(c) =>
            /\ rooms[c] = {}
            /\ ~Registered(c)
            /\ \A i \in 1..Len(emitted) : c \notin emitted[i].rcpts
            /\ \A t \in Running : t.sock # c

\* a message is sent to the user of a socket whose handshake was rejected:
\* the notification to that user's channel reaches nobody
C3_Witness ==
    \E c \in Conns :
        /\ conn[c].status = "rejected"
        /\ \E i \in 1..Len(emitted) :
              /\ emitted[i].ev = "new_message_notification"
              /\ emitted[i].chan = UserRoom(Owner(c))
              /\ emitted[i].rcpts = {}

\* ------------------------------------------------------------------ C4
\* the conversation id names no conversation, or one that does not list u
NotListed(id, u) ==
    \/ id \notin 1..Len(convs)
    \/ \A k \in 1..Len(convs[id].participants) : convs[id].participants[k] # u

\* C4: a join_conversation request whose conversationId names no conversation,
\* or one that does not list the caller, is answered with join_error alone
\* (no joined_conversation) and changes the members of no room.
C4_JoinRefused ==
    [][nreq' # nreq =>
         \A c \in Conns : \A p \in JoinPayloads :
            (/\ p.conversationId # NoId
             /\ NotListed(p.conversationId, conn[c].userId)
             /\ JoinById(c, p) \/ JoinQueryFault(c, p))
            => IsError(emitted', "join_error", c) /\ rooms' = rooms]_vars

\* a user has just been refused a conversation that exists without it
C4_Witness ==
    /\ Len(emitted) = 1
    /\ emitted[1].ev = "join_error"
    /\ emitted[1].conv \in 1..Len(convs)
    /\ \E c \in Conns :
          /\ emitted[1].chan = Sock(c)
          /\ emitted[1].rcpts = {c}
          /\ NotListed(emitted[1].conv, conn[c].userId)
          /\ ConvRoom(emitted[1].conv) \notin rooms[c]

\* ------------------------------------------------------------------ C5
\* C5 as stated: a successful send_message acknowledges first, then
\* broadcasts receive_message, then sends new_message_notification.
C5_AckFirst ==
    \A i \in 1..Len(emitted) :
        emitted[i].ev = "ack" /\ emitted[i].ok =>
            /\ i = 1
            /\ Len(emitted) = 3
            /\ emitted[2].ev = "receive_message"
            /\ emitted[3].ev = "new_message_notification"

\* C5 as amended: a successful send_message first broadcasts receive_message
\* to the conversation room, then sends new_message_notification to the
\* other participant's user channel, and acknowledges {ok: true, message}
\* last (when the request carried an acknowledgment callback).
C5_AckLast ==
    [][\A t \in Running :
          t.op = "send" /\ t.pc = "emit" /\ tasks' = Finish(t) =>
            /\ Len(emitted') = IF t.hasAck THEN 3 ELSE 2
            /\ emitted'[1].ev = "receive_message"
            /\ emitted'[1].chan = ConvRoom(t.conversationId)
            /\ emitted'[1].msg = t.message
            /\ emitted'[2].ev = "new_message_notification"
            /\ emitted'[2].chan = UserRoom(msgs[t.message].receiver)
            /\ emitted'[2].msg = t.message
            /\ t.hasAck => /\ emitted'[3].ev = "ack" /\ emitted'[3].ok
                           /\ emitted'[3].chan = Sock(t.sock)
                           /\ emitted'[3].msg = t.message]_vars

\* a send_message has just succeeded and been acknowledged
C5_Witness ==
    /\ Len(emitted) = 3
    /\ emitted[1].ev = "receive_message"
    /\ emitted[3].ev = "ack" /\ emitted[3].ok
    /\ emitted[3].msg \in 1..Len(msgs)

\* ------------------------------------------------------------------ C6
\* C6: when the conversation lookup or either store write of addMessage
\* fails, the handler ends there, the caller is acknowledged with
\* {ok: false, error} and nothing else is emitted for the request: no
\* receive_message, no new_message_notification.
C6_FailureIsAcked ==
    [][/\ \A t \in Running :
            t.op = "send" /\ t.pc \in {"create", "update"} /\ tasks' = Finish(t)
            => IsAckError(emitted', t.sock, t.hasAck)
       /\ nreq' # nreq =>
            \A c \in Conns : \A p \in SendPayloads :
               (/\ p.conversationId # NoId /\ p.content # ""
                /\ \/ SendQueryFault(c, p)
                   \/ SendStart(c, p) /\ p.conversationId = BadId)
               => IsAckError(emitted', c, p.hasAck) /\ tasks' = tasks]_vars

\* the update of lastMessage has failed after the message was created, and
\* the caller has been told
C6_Witness ==
    /\ IsError(emitted, "ack", emitted[1].chan.sock)
    /\ emitted[1].err = "StoreFailure"
    /\ tasks = EmptyBag
    /\ Len(msgs) = 1
    /\ convs[msgs[1].conversationId].lastMessage = NoId

\* ------------------------------------------------------------------ C7
\* the events es are the message_seen broadcast of a request
IsSeen(es, conversationId, ids, userId) ==
    /\ Len(es) = 1
    /\ es[1].ev = "message_seen"
    /\ es[1].chan = ConvRoom(conversationId)
    /\ es[1].conv = conversationId /\ es[1].ids = ids /\ es[1].by = userId

\* C7: every message_read request of a participant with a non-empty
\* messageIds leads to the broadcast of message_seen{conversationId,
\* messageIds, by} to the conversation room, whatever the update changed and
\* whether or not the list holds malformed ids: its handler does not end
\* without it (checked with a store that never fails).
C7_SeenIsBroadcast ==
    [][/\ \A t \in Running :
            t.op = "read" /\ tasks' = Finish(t)
            => IsSeen(emitted', t.conversationId, t.messageIds, t.userId)
       /\ nreq' # nreq =>
            \A c \in Conns : \A p \in ReadPayloads :
               (/\ ~NotListed(p.conversationId, conn[c].userId)
                /\ Len(p.messageIds) > 0
                /\ ReadStart(c, p) /\ tasks' = tasks)
               => IsSeen(emitted', p.conversationId, p.messageIds, conn[c].userId)]_vars

\* ------------------------------------------------------------------ C8
\* C8: a send_message request whose content is empty or whose conversationId
\* is missing is acknowledged with {ok: false}; it writes nothing to the store,
\* starts no store call and emits nothing else.
C8_InvalidPayloadRefused ==
    [][nreq' # nreq =>
         \A c \in Conns : \A p \in SendPayloads :
            (p.content = "" \/ p.conversationId = NoId) /\ SendStart(c, p)
            => /\ IsAckError(emitted', c, p.hasAck)
               /\ convs' = convs /\ msgs' = msgs /\ tasks' = tasks]_vars

\* an invalid payload has just been refused while the store holds a
\* conversation the caller could have written to
C8_Witness ==
    /\ IsError(emitted, "ack", emitted[1].chan.sock)
    /\ emitted[1].err = "Invalid payload"
    /\ \E i \in 1..Len(convs) :
          ~NotListed(i, conn[emitted[1].chan.sock].userId)

\* ------------------------------------------------------------------ C9
\* the messages a read handler names that belong to its conversation
NamedBy(t) ==
    {i \in 1..Len(msgs) : /\ \E k \in 1..Len(t.messageIds) : t.messageIds[k] = i
                          /\ msgs[i].conversationId = Canon(t.conversationId)}

\* C9: a message is created unseen and its seen flag never goes back from
\* true to false; an update that names an already-seen message leaves it seen
\* and the handler goes on to its broadcast.
C9_SeenIsMonotonic ==
    [][/\ Len(msgs') >= Len(msgs)
       /\ \A i \in 1..Len(msgs) : msgs[i].seen => msgs'[i].seen
       /\ \A i \in (Len(msgs) + 1)..Len(msgs') : ~msgs'[i].seen
       /\ \A t \in Running :
            (/\ ReadUpdate(t)
             /\ \A k \in 1..Len(t.messageIds) : t.messageIds[k] >= 1
             /\ \E i \in NamedBy(t) : msgs[i].seen)
            => /\ \A i \in NamedBy(t) : msgs'[i].seen
               /\ [t EXCEPT !.pc = "emit"] \in BagToSet(tasks')]_vars

\* two message_read handlers have both updated the same message: the later
\* of the two updates found it seen
C9_Witness ==
    \E i \in 1..Len(msgs) :
        /\ msgs[i].seen
        /\ BagCardinality([t \in {r \in Running : r.op = "read" /\ r.pc = "emit"
                                                  /\ i \in NamedBy(r)}
                             |-> tasks[t]]) >= 2

\* ------------------------------------------------------------------ C10
\* C10: after any number of getOrCreateConversation calls that do not
\* overlap, exactly one conversation exists for the pair of a call, whatever
\* the order of its two arguments (checked where no two handlers overlap: a
\* join handler at "joined" has just had its call return).
C10_OnePerPair ==
    \A t \in Running :
        t.op = "join" /\ t.pc = "joined" =>
            Cardinality(ConvsOf(t.userId, t.otherUserId)) = 1

\* ------------------------------------------------------------------ C11
\* C11: in every reachable state, the sender and the receiver of every
\* persisted message are both participants of the conversation its
\* conversationId names.
C11_MessageEndsAreParticipants ==
    \A i \in 1..Len(msgs) :
        /\ msgs[i].conversationId \in 1..Len(convs)
        /\ ~NotListed(msgs[i].conversationId, msgs[i].sender)
        /\ ~NotListed(msgs[i].conversationId, msgs[i].receiver)

\* a message has been persisted while the store also holds a conversation
\* that does not list its sender
C11_Witness ==
    \E k \in 1..Len(convs) : \E i \in 1..Len(msgs) :
        /\ NotListed(k, msgs[i].sender)
        /\ ~NotListed(msgs[i].conversationId, msgs[i].sender)

\* ------------------------------------------------------------------ C12
\* C12: in every reachable state every conversation of the store has exactly
\* two distinct participants, whatever join_conversation requests were made
\* (one whose otherUserId is the caller included), and no send_message is
\* answered "No other participant".
C12_TwoDistinctParticipants ==
    /\ \A i \in 1..Len(convs) :
          Len(convs[i].participants) = 2 /\ Cardinality(PairOf(i)) = 2
    /\ \A k \in 1..Len(emitted) : emitted[k].err # "No other participant"

\* the second half of C12 alone: it fails as well
C12_NeverNoOtherParticipant ==
    \A k \in 1..Len(emitted) : emitted[k].err # "No other participant"

\* ------------------------------------------------------------------ C13
\* the events es deliver the event kind about message m to socket c
Delivers(es, kind, m, c) ==
    \E k \in 1..Len(es) : es[k].ev = kind /\ es[k].msg = m /\ c \in es[k].rcpts

\* C13: when a send_message into conversation C succeeds, every connected
\* socket that is a member of the room of C is delivered receive_message with
\* the message id the caller is acknowledged with, and every connected socket
\* of the other participant is delivered new_message_notification, whether
\* or not it is in the room (checked with clients that may name C by a
\* second spelling of its identifier).
C13_Delivered ==
    [][\A t \in Running :
          t.op = "send" /\ t.pc = "emit" /\ tasks' = Finish(t) =>
            /\ t.hasAck => \E k \in 1..Len(emitted') :
                              /\ emitted'[k].ev = "ack" /\ emitted'[k].ok
                              /\ emitted'[k].msg = t.message
            /\ \A c \in Conns :
                  conn[c].status = "connected" =>
                    /\ ConvRoom(t.conv) \in rooms[c]
                         => Delivers(emitted', "receive_message", t.message, c)
                    /\ conn[c].userId = msgs[t.message].receiver
                         => Delivers(emitted', "new_message_notification",
                                     t.message, c)]_vars

\* ------------------------------------------------------------------ C14
\* the message_read payloads of a client, second spellings included
AnyReadPayloads ==
    ReadPayloads
    \cup [conversationId : AliasConvs, messageIds : Arrays(KnownMsgs, 1)]

C15_OnlyValidIdsForwarded ==
    \A t \in Running :
        t.op = "read" /\ t.pc = "update" =>
            \A k \in 1..Len(UpdateIds(t)) : IsValidObjectId(UpdateIds(t)[k])

\* ------------------------------------------------------------------ C16
\* the messages a read handler lists that belong to another conversation
StrangersOf(t) ==
    {i \in 1..Len(msgs) : /\ \E k \in 1..Len(t.messageIds) : t.messageIds[k] = i
                          /\ msgs[i].conversationId # Canon(t.conversationId)}

\* C16: the store update of a message_read for conversation C changes the
\* seen flag of no message of another conversation, listed in messageIds or
\* not.
C16_ReadIsScoped ==
    [][\A t \in Running :
          ReadUpdate(t) =>
            \A i \in 1..Len(msgs) :
                msgs[i].conversationId # Canon(t.conversationId)
                => msgs'[i].seen = msgs[i].seen]_vars

\* the update of a message_read has taken effect, the request listed a
\* message of another conversation, and that message is still unseen
C16_Witness ==
    \E t \in Running :
        /\ t.op = "read" /\ t.pc = "emit"
        /\ \E i \in StrangersOf(t) : ~msgs[i].seen

\* ------------------------------------------------------------------ C17
\* the join_conversation payloads of a client, second spellings included
AnyJoinPayloads ==
    JoinPayloads \cup [conversationId : AliasConvs, otherUserId : {NoUser}]

\* the step answers the join_conversation request of socket c with one
\* event: joined_conversation, the socket (if still connected) being in the
\* room the event names, or join_error, no room having changed
AnswersJoin(c) ==
    /\ Len(emitted') = 1
    /\ emitted'[1].chan = Sock(c)
    /\ \/ /\ emitted'[1].ev = "joined_conversation"
          /\ conn[c].status = "connected"
               => ConvRoom(emitted'[1].conv) \in rooms'[c]
       \/ /\ emitted'[1].ev = "join_error"
          /\ rooms' = rooms

\* the step answers socket c with join_error and changes no room
RefusesJoin(c) ==
    /\ AnswersJoin(c)
    /\ emitted'[1].ev = "join_error"

\* C17: the step that ends the handling of a join_conversation request sends
\* the caller exactly one event, joined_conversation or join_error;
\* joined_conversation only with the socket added to the room it names; and
\* a store failure gives join_error and changes no room.
C17_OneAnswerToJoin ==
    [][/\ \A t \in Running :
            t.op = "join" /\ tasks' = Finish(t) =>
               /\ AnswersJoin(t.sock)
               /\ JoinFault(t) => RefusesJoin(t.sock)
       /\ nreq' # nreq =>
            \A c \in Conns : \A p \in AnyJoinPayloads :
               /\ JoinStart(c, p) /\ tasks' = tasks => AnswersJoin(c)
               /\ JoinById(c, p) => AnswersJoin(c)
               /\ JoinQueryFault(c, p) => RefusesJoin(c)]_vars

\* the store has failed a join_conversation{otherUserId} and the caller, told
\* so, is in no conversation room
C17_Witness ==
    /\ Len(emitted) = 1
    /\ emitted[1].ev = "join_error"
    /\ emitted[1].err = "Failed to join conversation"
    /\ emitted[1].conv = NoId
    /\ \E c \in Conns :
          /\ emitted[1].chan = Sock(c)
          /\ emitted[1].rcpts = {c}
          /\ rooms[c] = {UserRoom(conn[c].userId)}

\* ------------------------------------------------------------------ C18
\* socket c is closed with a send_message handler of its own in flight
SendingClosed(c) ==
    /\ conn[c].status = "closed"
    /\ \E t \in Running : t.op = "send" /\ t.sock = c

\* no send_message handler of socket c is in flight
SendsDone(c) == \A t \in Running : ~(t.op = "send" /\ t.sock = c)

\* the step takes the handler t out of the place where it is suspended
Moves(t) == (IF t \in BagToSet(tasks') THEN tasks'[t] ELSE 0) < tasks[t]

\* C18: with a store that does not fail, a disconnect ends no handler; a
\* send_message handler whose socket has closed goes on to persist its
\* message, to set lastMessage to it and to broadcast receive_message to the
\* sockets still in the conversation room, and it does end.
C18_DisconnectAbortsNothing ==
    /\ [][/\ \A c \in Conns :
               conn[c].status = "connected" /\ conn'[c].status = "closed"
               => tasks' = tasks
          /\ \A t \in Running :
               t.op = "send" /\ conn[t.sock].status = "closed" /\ Moves(t) =>
                 /\ t.pc = "create" =>
                      /\ Len(msgs') = Len(msgs) + 1
                      /\ msgs'[Len(msgs')].sender = t.userId
                      /\ msgs'[Len(msgs')].conversationId = t.conv
                      /\ [t EXCEPT !.pc = "update", !.message = Len(msgs')]
                            \in BagToSet(tasks')
                 /\ t.pc = "update" =>
                      /\ convs'[t.conv].lastMessage = t.message
                      /\ [t EXCEPT !.pc = "emit"] \in BagToSet(tasks')
                 /\ t.pc = "emit" =>
                      \A c \in Conns :
                          conn[c].status = "connected" /\ ConvRoom(t.conv) \in rooms[c]
                          => Delivers(emitted', "receive_message", t.message, c)]_vars
    /\ \A c \in Conns : SendingClosed(c) ~> SendsDone(c)

\* the handler of a socket that has closed has just broadcast its message,
\* persisted and set as lastMessage, to a socket still in the room
C18_Witness ==
    \E k \in 1..Len(emitted) : \E c \in Conns :
        /\ emitted[k].ev = "receive_message"
        /\ emitted[k].rcpts # {}
        /\ conn[c].status = "closed" /\ conn[c].userId = emitted[k].by
        /\ emitted[k].msg \in 1..Len(msgs)
        /\ convs[msgs[emitted[k].msg].conversationId].lastMessage = emitted[k].msg

\* ------------------------------------------------------------------ C19
\* C19: in every reachable state a socket that is in a conversation room is
\* authenticated as a participant of the conversation the room is named
\* after, whichever way it joined, and every socket that receive_message or
\* message_seen is delivered to is a participant's (checked with clients
\* that may name a conversation by a second spelling of its identifier).
C19_RoomsHoldParticipants ==
    /\ \A c \in Conns : \A r \in rooms[c] :
          r.kind = "conversation" => ~NotListed(Canon(r.conv), conn[c].userId)
    /\ \A k \in 1..Len(emitted) :
          emitted[k].ev \in {"receive_message", "message_seen"} =>
              \A c \in emitted[k].rcpts :
                  ~NotListed(Canon(emitted[k].conv), conn[c].userId)

\* one socket is in a room it joined by conversationId, another socket is in
\* a room of the same conversation, and a receive_message has just been
\* delivered
C19_Witness ==
    /\ \E k \in 1..Len(emitted) :
          emitted[k].ev = "receive_message" /\ emitted[k].rcpts # {}
    /\ \E c, d \in Conns : \E i \in 1..Len(convs) :
          /\ c # d
          /\ ConvRoom(Alias(i)) \in rooms[c]
          /\ ConvRoom(i) \in rooms[d]

\* ------------------------------------------------------------------ C20
\* the event announces a message: receive_message, new_message_notification
\* or the acknowledgment {ok: true, message}
Announces(e) ==
    \/ e.ev \in {"receive_message", "new_message_notification"}
    \/ e.ev = "ack" /\ e.ok

\* C20: every receive_message, every new_message_notification and every
\* acknowledgment {ok: true} is about a message that is in the store when the
\* event is emitted, in the conversation the request named and with the
\* caller as its sender (checked with a store that may fail and with clients
\* that may name a conversation by a second spelling of its identifier).
C20_AnnouncedIsPersisted ==
    \A k \in 1..Len(emitted) :
        Announces(emitted[k]) =>
            /\ emitted[k].msg \in 1..Len(msgs)
            /\ msgs[emitted[k].msg].conversationId = Canon(emitted[k].conv)
            /\ msgs[emitted[k].msg].sender = emitted[k].by

\* a send_message that named its conversation by a second spelling of the
\* identifier has just announced its message in all three ways, while the
\* store also holds a message of another request
C20_Witness ==
    /\ Len(msgs) = 2
    /\ \A kind \in {"receive_message", "new_message_notification", "ack"} :
          \E k \in 1..Len(emitted) :
              /\ emitted[k].ev = kind
              /\ Announces(emitted[k])
              /\ emitted[k].conv \in AliasConvs
              /\ emitted[k].msg \in 1..Len(msgs)

====
